---- MODULE Spec2Model ----
(***************************************************************************)
(* Model of the Codex task scrapers of this repository.                    *)
(*                                                                         *)
(* Three scrapers share one design and are modelled side by side; the      *)
(* variable `variant` says which one a run executes:                       *)
(*   "v1"  src/scrape_urls.py      CodexTaskScraper (batches + gather)     *)
(*   "v2"  src/scrape_urls_v2.py   CodexTaskScraper (sequential, retries)  *)
(*   "cs"  src/codex_scraper.py    CodexScraper     (one shared page)      *)
(*                                                                         *)
(* The browser is the environment: every call into it (new_context,        *)
(* new_page, goto, title, close, ...) either returns or raises, and what   *)
(* a page holds is drawn from a set of page behaviours.                    *)
(***************************************************************************)
EXTENDS Integers, Sequences, FiniteSets, TLC

\* ---------------------------------------------------------------- bounds
MaxTargets == 3
MaxConcurrent == 2
MaxFaults == 3

\* Selectors of a strategy chain that can match on a page.
MaxStrategies == 2

\* Main-content containers that can match on a page, and divs in each.
MaxMains == 1

MaxDivs == 1

\* Records in one save_results call, and save calls on one directory.
MaxRecords == 2

MaxSaves == 2
MaxLines == 2
MaxTaskFaults == 1

\* ------------------------------------------------------ program constants
max_retries == 3

Variants == {"v1", "v2", "cs"}

\* ------------------------------------------------------------- records
NoError == "none"

NoRecord == [task_id |-> 0, error |-> NoError, found |-> {}]

\* The dict built by the except handlers: url, task_id, error, scraped_at.
\* It has no title, prompt, metadata or logs key at all.
ErrorRecord(t, e) == [task_id |-> t, error |-> e, found |-> {}]

NavError(k) == "goto#" \o ToString(k)

\* The fields a Record can carry a value for.
FieldNames == {"prompt", "metadata", "logs", "summary_data", "files_changed", "pr_links"}

\* Field Extractors in the order extract_task_data runs them.
FieldSeq(v) ==
    CASE v = "v2" -> <<"prompt", "metadata", "logs", "summary_data", "files_changed", "pr_links">>
      [] v = "v1" -> <<"prompt", "metadata", "logs", "summary_data", "files_changed">>
      [] OTHER    -> <<"prompt", "logs", "metadata">>

\* What a field extractor meets on the page.
Outcomes == {"found", "absent", "error"}

\* A page behaviour: `outer` is where the calls made outside every inner
\* try block end ("ok", or the call that raises), `f` is what each field
\* extractor meets.
AllBehaviours == [outer : {"ok", "wait", "title"}, f : [FieldNames -> Outcomes]]

Behaviour(o, g) == [outer |-> o, f |-> g]

\* The page behaviours a whole run draws from.
PageBehaviours ==
    { Behaviour("ok", [n \in FieldNames |-> "found"]),
      Behaviour("ok", [n \in FieldNames |-> IF n = "logs" THEN "absent" ELSE "found"]),
      Behaviour("ok", [n \in FieldNames |-> IF n = "prompt" THEN "error" ELSE "absent"]),
      Behaviour("title", [n \in FieldNames |-> "found"]) }

\* ---------------------------------------------------------- extraction
\* FALSE would be an extractor whose exception is not caught next to it.
Swallows_NoInnerTry(v, field) == ~(field = "prompt")

\* Every field extractor sits in its own try/except (or, in cs, is a method
\* whose whole body is one), so an exception raised while extracting one
\* field is swallowed there.
Swallows(v, field) == TRUE

\* Runs the extractors seq[k..] in order.  acc.found: fields that got a
\* value; acc.ran: extractors run so far; acc.raised: an exception left an
\* extractor and reached the enclosing handler.
RECURSIVE RunExtractors(_, _, _, _, _)
RunExtractors(v, seq, k, beh, acc) ==
    IF k > Len(seq) THEN acc
    ELSE LET field == seq[k]
             o     == beh.f[field]
             ran2  == Append(acc.ran, field)
         IN  IF o = "error" /\ ~Swallows(v, field)
             THEN [acc EXCEPT !.ran = ran2, !.raised = TRUE]
             ELSE RunExtractors(v, seq, k + 1, beh,
                    [acc EXCEPT !.ran = ran2,
                                !.found = IF o = "found" THEN @ \cup {field} ELSE @])

\* CodexTaskScraper.extract_task_data of v1 and v2: wait for the load
\* state, read the title, run the extractors, return the dict; any
\* exception that reaches the outer handler gives the error dict.
scraper_extract_task_data(v, t, beh) ==
    IF beh.outer # "ok"
    THEN [rec |-> ErrorRecord(t, "extract:" \o beh.outer), ran |-> <<>>]
    ELSE LET r == RunExtractors(v, FieldSeq(v), 1, beh,
                                [found |-> {}, ran |-> <<>>, raised |-> FALSE])
         IN  IF r.raised
             THEN [rec |-> ErrorRecord(t, "extract:" \o r.ran[Len(r.ran)]), ran |-> r.ran]
             ELSE [rec |-> [task_id |-> t, error |-> NoError, found |-> r.found],
                   ran |-> r.ran]

\* CodexScraper.extract_task_data: task_data is created with empty prompt,
\* logs and metadata, goto and title run inside the try, the title goes
\* into metadata, the three extractors fill the rest; on an exception the
\* SAME task_data gets its error set and is returned.
codex_extract_task_data(t, navok, beh) ==
    IF ~navok
    THEN [rec |-> ErrorRecord(t, "goto"), ran |-> <<>>]
    ELSE IF beh.outer # "ok"
    THEN [rec |-> ErrorRecord(t, "extract:" \o beh.outer), ran |-> <<>>]
    ELSE LET r == RunExtractors("cs", FieldSeq("cs"), 1, beh,
                                [found |-> {"metadata"}, ran |-> <<>>, raised |-> FALSE])
         IN  [rec |-> [task_id |-> t,
                       error   |-> IF r.raised THEN "extract:" \o r.ran[Len(r.ran)]
                                   ELSE NoError,
                       found   |-> r.found],
              ran |-> r.ran]

extract_task_data(v, t, navok, beh) ==
    IF v = "cs" THEN codex_extract_task_data(t, navok, beh)
    ELSE scraper_extract_task_data(v, t, beh)

\* ---------------------------------------------------- the output directory
\* A directory maps the names of the files in it to their content; the
\* content of a file is the sequence of the chunks written to it.
EmptyDir == [n \in {} |-> <<>>]

JsonName(id) == ToString(id) \o ".json"

LogsName(id) == ToString(id) \o "_logs.html"

SummaryName == "summary.json"

\* A file opened for appending.
WriteFile_Append(dir, name, chunk) ==
    [n \in DOMAIN dir \cup {name} |->
        IF n = name
        THEN (IF name \in DOMAIN dir THEN dir[name] ELSE <<>>) \o <<chunk>>
        ELSE dir[n]]

\* with open(path, 'w') as f: f.write(...) / json.dump(..., f)
WriteFile(dir, name, chunk) ==
    [n \in DOMAIN dir \cup {name} |-> IF n = name THEN <<chunk>> ELSE dir[n]]

\* The same statement raising an I/O error: open() failed and the file is
\* as it was, or the write failed after open() had truncated it.
FailedWrite(dir, name, left) ==
    IF left = "untouched" THEN dir
    ELSE [n \in DOMAIN dir \cup {name} |-> IF n = name THEN <<>> ELSE dir[n]]

\* The Record as the save functions see it: the dict, and whether its logs
\* carry markup ('html' in v1 and v2, '_html' in cs).  Extraction stores
\* the markup whenever it stores logs.
AsSaved(r) ==
    [task_id |-> r.task_id, error |-> r.error, found |-> r.found,
     html |-> "logs" \in r.found]

\* The Records of Target id that the save functions are tried on: a
\* Success Record with prompt and logs, one with a prompt only, and a
\* Failed Record.
RecordsOfTarget(id) ==
    {AsSaved([task_id |-> id, error |-> NoError, found |-> {"prompt", "logs"}]),
     AsSaved([task_id |-> id, error |-> NoError, found |-> {"prompt"}]),
     AsSaved(ErrorRecord(id, NavError(max_retries)))}

\* A report for every Record, logs or not.
HasMarkup_Always(r) == TRUE

\* result.get('logs', {}).get('html')
\* task_data.get("logs") and task_data["logs"].get("_html")
HasMarkup(r) == "logs" \in r.found /\ r.html

\* cs: task_data["logs"].pop("_html") takes the markup out of the Record
\* itself; v1 and v2 leave the Record alone.
Popped(v, r) == IF v = "cs" /\ HasMarkup(r) THEN [r EXCEPT !.html = FALSE] ELSE r

\* json.dump(result, f, ...)
JsonChunk(r) == [kind |-> "json", record |-> r]

\* save_logs_as_html (v1, v2): title, task id, url, time, escaped prompt
\* and the markup; _create_styled_html (cs): task id and the markup.
ReportChunk(v, r) ==
    IF v = "cs"
    THEN [kind |-> "report", task_id |-> r.task_id, prompt |-> "", logs |-> "markup"]
    ELSE [kind |-> "report", task_id |-> r.task_id,
          prompt |-> IF "prompt" \in r.found THEN "escaped" ELSE "No prompt found",
          logs |-> "markup"]

\* The body of the loop of save_results, and save_task_data: the json
\* file, then the report when the Record has markup.  fail names the write
\* that raises, if any; nothing catches it.
SaveRecord(v, dir, r, fail, left) ==
    LET q  == Popped(v, r)
        d1 == WriteFile(dir, JsonName(r.task_id), JsonChunk(q))
    IN  IF fail = "json"
        THEN [dir |-> FailedWrite(dir, JsonName(r.task_id), left), ok |-> FALSE, rec |-> q]
        ELSE IF ~HasMarkup(r)
        THEN [dir |-> d1, ok |-> TRUE, rec |-> q]
        ELSE IF fail = "report"
        THEN [dir |-> FailedWrite(d1, LogsName(r.task_id), left), ok |-> FALSE, rec |-> q]
        ELSE [dir |-> WriteFile(d1, LogsName(r.task_id), ReportChunk(v, r)),
              ok |-> TRUE, rec |-> q]

\* The batch summary save_results writes: one entry per Record, in
\* collection order, with its status and its error text.
SummaryTasks(rs) ==
    [k \in 1..Len(rs) |->
        [task_id |-> rs[k].task_id,
         status  |-> IF rs[k].error # NoError THEN "error" ELSE "success",
         error   |-> rs[k].error]]

\* Every Record counted as a success.
Successful_All(rs) == Len(rs)

\* len([r for r in results if 'error' not in r])
Successful(rs) == Cardinality({k \in 1..Len(rs) : rs[k].error = NoError})

\* Every Record counted as a failure.
Failed_All(rs) == Len(rs)

\* len([r for r in results if 'error' in r])
Failed(rs) == Cardinality({k \in 1..Len(rs) : rs[k].error # NoError})

\* The summary dict of save_results; v2 also counts prompts and logs.
Summary(v, rs) ==
    IF v = "v2"
    THEN [kind |-> "summary", total_tasks |-> Len(rs), successful |-> Successful(rs),
          failed |-> Failed(rs), tasks |-> SummaryTasks(rs),
          with_prompt |-> Cardinality({k \in 1..Len(rs) : "prompt" \in rs[k].found}),
          with_logs |-> Cardinality({k \in 1..Len(rs) : "logs" \in rs[k].found})]
    ELSE [kind |-> "summary", total_tasks |-> Len(rs), successful |-> Successful(rs),
          failed |-> Failed(rs), tasks |-> SummaryTasks(rs)]

\* save_results(results) from Record k on: the loop, then the summary.
\* Record number failAt is the one whose write raises (Len(rs) + 1: the
\* write of the summary; 0: none); the exception leaves save_results.
RECURSIVE SaveAll(_, _, _, _, _, _, _)
SaveAll(v, dir, rs, k, failAt, fail, left) ==
    IF k > Len(rs)
    THEN IF failAt = k
         THEN [dir |-> FailedWrite(dir, SummaryName, left), ok |-> FALSE]
         ELSE [dir |-> WriteFile(dir, SummaryName, Summary(v, rs)), ok |-> TRUE]
    ELSE LET s == SaveRecord(v, dir, rs[k], IF failAt = k THEN fail ELSE "none", left) IN
         IF s.ok THEN SaveAll(v, s.dir, rs, k + 1, failAt, fail, left)
         ELSE [dir |-> s.dir, ok |-> FALSE]

\* The collections save_results is tried on: the Records of a run over n
\* Targets, in input order.
RecordLists ==
    UNION {{rs \in [1..n -> UNION {RecordsOfTarget(id) : id \in 1..n}] :
               \A k \in 1..n : rs[k].task_id = k} : n \in 1..MaxRecords}

\* The writes of a call that can raise: none (failAt 0), the json file of
\* Record k, its report if it has markup, or the summary.
Failures(rs) ==
    {[failAt |-> 0, fail |-> "none", left |-> "untouched"]}
      \cup {[failAt |-> k, fail |-> f, left |-> l] :
               k \in 1..Len(rs) + 1, f \in {"json", "report"}, l \in {"untouched", "truncated"}}

CanFail(rs, x) ==
    /\ x.fail = "report" => (x.failAt <= Len(rs) /\ HasMarkup(rs[x.failAt]))

\* ------------------------------------------------------------- state
VARIABLES
    variant,        \* which scraper runs
    urls,           \* the Target list, <<1, .., M>>: Target k is urls[k]
    max_concurrent, \* the concurrency limit / batch size
    contexts,       \* number of contexts the connected browser reports
    ctxPages,       \* number of pages already open in contexts[0]
    browser,        \* "connected" | "closed"
    faults,         \* browser calls that have raised so far
    rpc,            \* position of the run (scrape_all_tasks / scrape_urls)
    i,              \* loop index of the run: Targets urls[1..i] are dealt with
    cur,            \* cs: index of the Target being processed
    results,        \* the result collection
    batch_results,  \* cs: Records of the current batch
    files,          \* the output directory: file name -> content
    selfPage,       \* cs: self.page: "none" | "existing" | "new"
    tpc,            \* position of each Task Executor (scrape_task)
    retry,          \* v2: loop variable of the navigation loop
    waited,         \* v2: seconds slept between navigation attempts
    attempts,       \* goto calls made for the Target so far
    navres,         \* outcome of the latest goto: "none" | "ok" | "fail"
    page,           \* the page the executor opened: "none" | "open" | "closed"
    pctx,           \* the context that page lives in: "none" | "shared" | "own"
    ownctx,         \* v1: the context the executor created
    data,           \* the Record the executor is about to return
    pageUsers,      \* page id -> Targets navigated or read on it (0: self.page)
    finished,       \* v1: the Targets of the batch whose scrape_task returned, in order
    xpc, xvariant, xbeh, xres,  \* one extract_task_data call on its own
    ch,             \* one strategy chain resolved against one page
    sv,             \* an output directory and the save calls made on it
    inp,            \* the url list: the file, the urls read from it, those dispatched
    tk              \* one Task followed call by call through its page

runVars  == <<variant, urls, max_concurrent, contexts, ctxPages, browser, rpc, i, cur,
              results, batch_results, files, selfPage>>
taskVars == <<tpc, retry, waited, attempts, navres, page, pctx, ownctx, data, pageUsers,
             finished>>
xVars    == <<xpc, xvariant, xbeh, xres, ch, sv, inp, tk>>
vars     == <<runVars, taskVars, xVars, faults>>

Targets == 1..Len(urls)

Min(a, b) == IF a < b THEN a ELSE b

\* A browser call raises: the environment has a budget of such faults.
Fault == faults < MaxFaults /\ faults' = faults + 1

NoFault == UNCHANGED faults

\* A page behaviour in which some call raises.
Faulty(beh) == beh.outer # "ok" \/ \E n \in FieldNames : beh.f[n] = "error"

\* A scrape_task invocation that has been started and has not yet returned
\* or raised.
Running(t) == tpc[t] \notin {"pending", "returned", "raised"}

\* No chain is being resolved; no directory is being saved into.
NoChain == [pc |-> "off"]

NoSave == [pc |-> "off"]

\* No url list is being read; no Task is being followed.
NoInput == [pc |-> "off"]

NoTask == [pc |-> "off"]

\* No extract_task_data call is being looked at on its own.
NoCall ==
    /\ xpc = "idle"
    /\ xvariant = "v2"
    /\ xbeh = Behaviour("ok", [n \in FieldNames |-> "found"])
    /\ xres = [rec |-> NoRecord, ran |-> <<>>]

Idle(x) ==
    /\ NoCall
    /\ ch = NoChain
    /\ sv = NoSave
    /\ inp = NoInput
    /\ tk = NoTask

Init ==
    /\ variant \in Variants
    /\ \E m \in 1..MaxTargets : urls = [k \in 1..m |-> k]
    /\ max_concurrent \in 1..MaxConcurrent
    /\ contexts \in 0..1
    /\ ctxPages \in (IF contexts = 0 THEN {0} ELSE 0..1)
    /\ browser = "connected"
    /\ faults = 0
    /\ rpc = "connect"
    /\ i = 0
    /\ cur = 0
    /\ results = <<>>
    /\ batch_results = <<>>
    /\ files = EmptyDir
    /\ selfPage = "none"
    /\ tpc = [t \in Targets |-> "pending"]
    /\ retry = [t \in Targets |-> 0]
    /\ waited = [t \in Targets |-> 0]
    /\ attempts = [t \in Targets |-> 0]
    /\ navres = [t \in Targets |-> "none"]
    /\ page = [t \in Targets |-> "none"]
    /\ pctx = [t \in Targets |-> "none"]
    /\ ownctx = [t \in Targets |-> "none"]
    /\ data = [t \in Targets |-> NoRecord]
    /\ pageUsers = [p \in 0..Len(urls) |-> {}]
    /\ finished = <<>>
    /\ Idle(0)

\* ------------------------------------------------- scrape_task (v1, v2)
\* Where the finally block goes after the page: v1 closes its context
\* next, v2 is done.
AfterPage(v) == IF v = "v1" THEN "close_context" ELSE "returned"

\* A handler that returns without going through a finally block.
OnError_NoFinally(v) == "returned"

\* Where scrape_task goes once its except handler has built the error
\* Record: into the finally block, like the success path.
OnError(v) == "close_page"

\* v1: context = await browser.new_context()
new_context(t) ==
    /\ variant = "v1" /\ tpc[t] = "new_context"
    /\ \/ /\ NoFault
          /\ ownctx' = [ownctx EXCEPT ![t] = "open"]
          /\ tpc' = [tpc EXCEPT ![t] = "new_page"]
          /\ UNCHANGED data
       \/ /\ Fault
          /\ data' = [data EXCEPT ![t] = ErrorRecord(t, "new_context")]
          /\ tpc' = [tpc EXCEPT ![t] = OnError(variant)]
          /\ UNCHANGED ownctx
    /\ UNCHANGED <<retry, waited, attempts, navres, page, pctx, pageUsers, finished, runVars, xVars>>

\* The context a new page is opened in.
PageContext(v) == IF v = "v1" THEN "own" ELSE "shared"

\* page = await context.new_page()
new_page(t) ==
    /\ variant \in {"v1", "v2"} /\ tpc[t] = "new_page"
    /\ \/ /\ NoFault
          /\ page' = [page EXCEPT ![t] = "open"]
          /\ pctx' = [pctx EXCEPT ![t] = PageContext(variant)]
          /\ tpc' = [tpc EXCEPT ![t] = "goto"]
          /\ UNCHANGED data
       \/ /\ Fault
          /\ data' = [data EXCEPT ![t] = ErrorRecord(t, "new_page")]
          /\ tpc' = [tpc EXCEPT ![t] = OnError(variant)]
          /\ UNCHANGED <<page, pctx>>
    /\ UNCHANGED <<retry, waited, attempts, navres, ownctx, pageUsers, finished, runVars, xVars>>

\* Every Target navigated on the first page of the context.
NavPage_Existing(v, t) == 0

\* The page a Target is navigated and read on: v1 and v2 use the page the
\* executor opened for it (page t), cs uses self.page (page 0), the first
\* page of the context when it has one.
NavPage(v, t) == IF v = "cs" THEN 0 ELSE t

\* The retry test with the budget off by one.
RetryAgain_OffByOne(r) == r < max_retries

\* v2: `if retry < max_retries - 1` sleeps and retries, else re-raises.
RetryAgain(r) == r < max_retries - 1

\* await page.goto(url, ...).  In v2 one attempt is the body of the try:
\* goto followed by wait_for_timeout; it fails when either raises.  v1 has
\* no retry: a failure goes straight to the handler.
goto(t) ==
    /\ variant \in {"v1", "v2"} /\ tpc[t] = "goto"
    /\ attempts' = [attempts EXCEPT ![t] = @ + 1]
    /\ pageUsers' = [pageUsers EXCEPT ![NavPage(variant, t)] = @ \cup {t}]
    /\ \/ /\ NoFault
          /\ navres' = [navres EXCEPT ![t] = "ok"]
          /\ tpc' = [tpc EXCEPT ![t] = "extract"]
          /\ UNCHANGED data
       \/ /\ Fault
          /\ navres' = [navres EXCEPT ![t] = "fail"]
          /\ IF variant = "v2" /\ RetryAgain(retry[t])
             THEN /\ tpc' = [tpc EXCEPT ![t] = "backoff"]
                  /\ UNCHANGED data
             ELSE /\ data' = [data EXCEPT ![t] = ErrorRecord(t, NavError(attempts[t] + 1))]
                  /\ tpc' = [tpc EXCEPT ![t] = OnError(variant)]
    /\ UNCHANGED <<retry, waited, page, pctx, ownctx, finished, runVars, xVars>>

\* A delay that differs from the one in the code.
BackoffDelay_Short(r) == 1

\* v2: the seconds slept after failed attempt number r + 1:
\* `await asyncio.sleep(3)`, whatever the value of retry.
BackoffDelay(r) == 3

\* v2: await asyncio.sleep(3), then the next iteration of
\* `for retry in range(max_retries)`; when the range is used up the loop
\* ends and the code after it runs.
backoff(t) ==
    /\ variant = "v2" /\ tpc[t] = "backoff"
    /\ retry' = [retry EXCEPT ![t] = @ + 1]
    /\ waited' = [waited EXCEPT ![t] = @ + BackoffDelay(retry[t])]
    /\ tpc' = [tpc EXCEPT ![t] = IF retry[t] + 1 < max_retries THEN "goto" ELSE "extract"]
    /\ UNCHANGED <<attempts, navres, page, pctx, ownctx, data, pageUsers, finished, runVars, xVars,
                   faults>>

\* data = await self.extract_task_data(page, url)
extract(t) ==
    /\ variant \in {"v1", "v2"} /\ tpc[t] = "extract"
    /\ \E beh \in PageBehaviours :
          /\ data' = [data EXCEPT ![t] = extract_task_data(variant, t, TRUE, beh).rec]
          /\ IF Faulty(beh) THEN Fault ELSE NoFault
    /\ pageUsers' = [pageUsers EXCEPT ![NavPage(variant, t)] = @ \cup {t}]
    /\ tpc' = [tpc EXCEPT ![t] = "close_page"]
    /\ UNCHANGED <<retry, waited, attempts, navres, page, pctx, ownctx, finished, runVars, xVars>>

\* finally: if page: await page.close()
\* A close that raises leaves the page in either state, and the exception
\* leaves scrape_task in place of the Record.
close_page(t) ==
    /\ variant \in {"v1", "v2"} /\ tpc[t] = "close_page"
    /\ IF page[t] = "none"
       THEN /\ tpc' = [tpc EXCEPT ![t] = AfterPage(variant)]
            /\ UNCHANGED <<page, faults>>
       ELSE \/ /\ NoFault
               /\ page' = [page EXCEPT ![t] = "closed"]
               /\ tpc' = [tpc EXCEPT ![t] = AfterPage(variant)]
            \/ /\ Fault
               /\ \E st \in {"open", "closed"} : page' = [page EXCEPT ![t] = st]
               /\ tpc' = [tpc EXCEPT ![t] = "raised"]
    /\ UNCHANGED <<retry, waited, attempts, navres, pctx, ownctx, data, pageUsers, finished, runVars, xVars>>

\* v1 finally: if context: await context.close()
close_context(t) ==
    /\ variant = "v1" /\ tpc[t] = "close_context"
    /\ IF ownctx[t] = "none"
       THEN /\ tpc' = [tpc EXCEPT ![t] = "returned"]
            /\ finished' = Append(finished, t)
            /\ UNCHANGED <<ownctx, faults>>
       ELSE \/ /\ NoFault
               /\ ownctx' = [ownctx EXCEPT ![t] = "closed"]
               /\ tpc' = [tpc EXCEPT ![t] = "returned"]
               /\ finished' = Append(finished, t)
            \/ /\ Fault
               /\ \E st \in {"open", "closed"} : ownctx' = [ownctx EXCEPT ![t] = st]
               /\ tpc' = [tpc EXCEPT ![t] = "raised"]
               /\ UNCHANGED finished
    /\ UNCHANGED <<retry, waited, attempts, navres, page, pctx, data, pageUsers, runVars, xVars>>

\* ------------------------------------------- v1: scrape_all_tasks
\* batch = urls[i:i + self.max_concurrent], with a wrong upper end.
BatchOf_OneMore(k) == {t \in Targets : k < t /\ t <= k + max_concurrent + 1}

\* batch = urls[i:i + self.max_concurrent]  (i counts from 0)
BatchOf(k) == {t \in Targets : k < t /\ t <= k + max_concurrent}

\* A gather that returns as soon as one of its tasks has returned.
GatherDone_Any(B) == \E t \in B : tpc[t] = "returned"

\* await asyncio.gather(*tasks) returns once every task has returned.
GatherDone(B) == \A t \in B : tpc[t] = "returned"

\* asyncio.gather(*tasks) without return_exceptions: the first exception
\* raised by a task is raised from the await at once.
GatherRaises(B) == \E t \in B : tpc[t] = "raised"

\* The Records of the Targets lo+1..hi, in Target order.
RECURSIVE RecordsOf(_, _)
RecordsOf(lo, hi) ==
    IF lo >= hi THEN <<>> ELSE Append(RecordsOf(lo, hi - 1), data[hi])

\* A gather that returns the Records in the order its tasks returned.
GatherResults_Completion(lo, hi) == [k \in 1..Len(finished) |-> data[finished[k]]]

\* asyncio.gather returns the results of its awaitables in the order they
\* were passed, whatever the order they completed in.
GatherResults(lo, hi) == RecordsOf(lo, hi)

\* browser = await p.chromium.connect_over_cdp(...): v1 asks nothing about
\* the contexts the browser has.
v1_connect ==
    /\ variant = "v1" /\ rpc = "connect"
    /\ rpc' = "batch"
    /\ UNCHANGED <<variant, urls, max_concurrent, contexts, ctxPages, browser, i, cur,
                   results, batch_results, files, selfPage, taskVars, xVars, faults>>

\* for i in range(0, len(urls), n): tasks = [scrape_task(..) for url in batch]
\* After the loop: await browser.close(); return results.
v1_batch ==
    /\ variant = "v1" /\ rpc = "batch"
    /\ IF i < Len(urls)
       THEN /\ tpc' = [t \in Targets |-> IF t \in BatchOf(i) THEN "new_context" ELSE tpc[t]]
            /\ finished' = <<>>
            /\ rpc' = "gather"
            /\ UNCHANGED <<browser, page, ownctx>>
       ELSE /\ browser' = "closed"
            /\ ownctx' = [t \in Targets |-> IF ownctx[t] = "open" THEN "closed" ELSE ownctx[t]]
            /\ page' = [t \in Targets |-> IF page[t] = "open" THEN "closed" ELSE page[t]]
            /\ rpc' = "done"
            /\ UNCHANGED <<tpc, finished>>
    /\ UNCHANGED <<variant, urls, max_concurrent, contexts, ctxPages, i, cur, results,
                   batch_results, files, selfPage, retry, waited, attempts, navres, pctx, data,
                   pageUsers, xVars, faults>>

\* batch_results = await asyncio.gather(*tasks); results.extend(batch_results)
v1_gather ==
    /\ variant = "v1" /\ rpc = "gather"
    /\ GatherDone(BatchOf(i))
    /\ results' = results \o GatherResults(i, Min(i + max_concurrent, Len(urls)))
    /\ i' = i + max_concurrent
    /\ rpc' = IF i + max_concurrent < Len(urls) THEN "sleep" ELSE "batch"
    /\ UNCHANGED <<variant, urls, max_concurrent, contexts, ctxPages, browser, cur,
                   batch_results, files, selfPage, taskVars, xVars, faults>>

\* The exception of a task leaves gather, scrape_all_tasks and the
\* `async with`: nothing is returned.  The other tasks of the batch are not
\* cancelled by gather and may go on.
v1_gather_raises ==
    /\ variant = "v1" /\ rpc = "gather"
    /\ GatherRaises(BatchOf(i))
    /\ rpc' = "aborted"
    /\ UNCHANGED <<variant, urls, max_concurrent, contexts, ctxPages, browser, i, cur,
                   results, batch_results, files, selfPage, taskVars, xVars, faults>>

\* await asyncio.sleep(1) between batches
v1_sleep ==
    /\ variant = "v1" /\ rpc = "sleep"
    /\ rpc' = "batch"
    /\ UNCHANGED <<variant, urls, max_concurrent, contexts, ctxPages, browser, i, cur,
                   results, batch_results, files, selfPage, taskVars, xVars, faults>>

\* ------------------------------------------- v2: scrape_all_tasks
\* contexts = browser.contexts; if not contexts: return []
HasSession(n) == n > 0

v2_connect ==
    /\ variant = "v2" /\ rpc = "connect"
    /\ rpc' = IF HasSession(contexts) THEN "loop" ELSE "done"
    /\ UNCHANGED <<variant, urls, max_concurrent, contexts, ctxPages, browser, i, cur,
                   results, batch_results, files, selfPage, taskVars, xVars, faults>>

\* for i, url in enumerate(urls): result = await self.scrape_task(context, url)
v2_loop ==
    /\ variant = "v2" /\ rpc = "loop"
    /\ IF i < Len(urls)
       THEN /\ tpc' = [tpc EXCEPT ![i + 1] = "new_page"]
            /\ rpc' = "await"
       ELSE /\ rpc' = "done"
            /\ UNCHANGED tpc
    /\ UNCHANGED <<variant, urls, max_concurrent, contexts, ctxPages, browser, i, cur,
                   results, batch_results, files, selfPage, retry, waited, attempts, navres, page,
                   pctx, ownctx, data, pageUsers, finished, xVars, faults>>

\* results.append(result); if i < len(urls) - 1: await asyncio.sleep(3)
v2_append ==
    /\ variant = "v2" /\ rpc = "await"
    /\ tpc[i + 1] = "returned"
    /\ results' = Append(results, data[i + 1])
    /\ i' = i + 1
    /\ rpc' = IF i + 1 < Len(urls) THEN "sleep" ELSE "loop"
    /\ UNCHANGED <<variant, urls, max_concurrent, contexts, ctxPages, browser, cur,
                   batch_results, files, selfPage, taskVars, xVars, faults>>

\* except Exception as e: results.append({url, task_id, error: str(e), ..})
v2_except ==
    /\ variant = "v2" /\ rpc = "await"
    /\ tpc[i + 1] = "raised"
    /\ results' = Append(results, ErrorRecord(i + 1, "close_page"))
    /\ i' = i + 1
    /\ rpc' = "loop"
    /\ UNCHANGED <<variant, urls, max_concurrent, contexts, ctxPages, browser, cur,
                   batch_results, files, selfPage, taskVars, xVars, faults>>

v2_sleep ==
    /\ variant = "v2" /\ rpc = "sleep"
    /\ rpc' = "loop"
    /\ UNCHANGED <<variant, urls, max_concurrent, contexts, ctxPages, browser, i, cur,
                   results, batch_results, files, selfPage, taskVars, xVars, faults>>

\* ------------------------------------------------ cs: CodexScraper
\* connect_to_browser: no context -> None, and main returns through its
\* finally (scraper.close()); else self.page = pages[0], or a new page when
\* the context has none.
connect_to_browser ==
    /\ variant = "cs" /\ rpc = "connect"
    /\ IF HasSession(contexts)
       THEN /\ selfPage' = IF ctxPages = 0 THEN "new" ELSE "existing"
            /\ rpc' = "cs_extract"
            /\ cur' = 1
       ELSE /\ rpc' = "cs_close"
            /\ UNCHANGED <<selfPage, cur>>
    /\ UNCHANGED <<variant, urls, max_concurrent, contexts, ctxPages, browser, i,
                   results, batch_results, files, taskVars, xVars, faults>>

\* The loop going on to the next url without saving.
AfterExtract_NoSave == "cs_sleep"

\* In the loop of scrape_urls, save_task_data(result) follows the
\* extraction of every url.
AfterExtract == "cs_save"

\* result = await self.extract_task_data(url); batch_results.append(result)
cs_extract ==
    /\ variant = "cs" /\ rpc = "cs_extract"
    /\ \E navok \in BOOLEAN, beh \in PageBehaviours :
          /\ batch_results' =
                Append(batch_results, extract_task_data("cs", cur, navok, beh).rec)
          /\ IF ~navok \/ Faulty(beh) THEN Fault ELSE NoFault
    /\ attempts' = [attempts EXCEPT ![cur] = @ + 1]
    /\ pageUsers' = [pageUsers EXCEPT ![NavPage("cs", cur)] = @ \cup {cur}]
    /\ rpc' = AfterExtract
    /\ UNCHANGED <<variant, urls, max_concurrent, contexts, ctxPages, browser, i, cur,
                   results, files, selfPage, tpc, retry, waited, navres, page, pctx, ownctx, data,
                   finished, xVars>>

\* await self.save_task_data(result).  A write that raises leaves
\* scrape_urls: nothing catches it before main's finally.
save_task_data ==
    /\ variant = "cs" /\ rpc = "cs_save"
    /\ \E x \in Failures(<<AsSaved(batch_results[Len(batch_results)])>>) :
          /\ x.failAt <= 1
          /\ CanFail(<<AsSaved(batch_results[Len(batch_results)])>>, x)
          /\ IF x.failAt = 0 THEN NoFault ELSE Fault
          /\ LET s == SaveRecord("cs", files, AsSaved(batch_results[Len(batch_results)]),
                                 x.fail, x.left) IN
             /\ files' = s.dir
             /\ rpc' = IF s.ok THEN "cs_sleep" ELSE "cs_raised"
    /\ UNCHANGED <<variant, urls, max_concurrent, contexts, ctxPages, browser, i, cur,
                   results, batch_results, selfPage, taskVars, xVars>>

\* await asyncio.sleep(1); at the end of a batch results.extend(batch_results),
\* at the end of the list scrape_urls returns.
cs_sleep ==
    /\ variant = "cs" /\ rpc = "cs_sleep"
    /\ IF cur < Min(i + max_concurrent, Len(urls))
       THEN /\ cur' = cur + 1
            /\ rpc' = "cs_extract"
            /\ UNCHANGED <<i, results, batch_results>>
       ELSE /\ results' = results \o batch_results
            /\ batch_results' = <<>>
            /\ i' = i + max_concurrent
            /\ cur' = cur + 1
            /\ rpc' = IF i + max_concurrent < Len(urls) THEN "cs_extract" ELSE "cs_close"
    /\ UNCHANGED <<variant, urls, max_concurrent, contexts, ctxPages, browser, files,
                   selfPage, taskVars, xVars, faults>>

\* main's finally: await scraper.close() -> self.browser.close()
cs_close ==
    /\ variant = "cs" /\ rpc \in {"cs_close", "cs_raised"}
    /\ browser' = "closed"
    /\ rpc' = IF rpc = "cs_close" THEN "done" ELSE "aborted"
    /\ UNCHANGED <<variant, urls, max_concurrent, contexts, ctxPages, i, cur, results,
                   batch_results, files, selfPage, taskVars, xVars, faults>>

\* ------------------------------------------------ main (v1, v2): saving
\* scraper.save_results(results), once scrape_all_tasks has returned.
\* Every write succeeds here; the calls in which a write raises are those
\* of SpecSave.
save_results ==
    /\ variant \in {"v1", "v2"} /\ rpc = "done"
    /\ LET rs == [k \in DOMAIN results |-> AsSaved(results[k])] IN
       /\ files' = SaveAll(variant, files, rs, 1, 0, "none", "untouched").dir
       /\ rpc' = "saved"
       /\ NoFault
    /\ UNCHANGED <<variant, urls, max_concurrent, contexts, ctxPages, browser, i, cur,
                   results, batch_results, selfPage, taskVars, xVars>>

\* ------------------------------------------------------ specification
Next ==
    \/ \E t \in Targets : new_context(t)
    \/ \E t \in Targets : new_page(t)
    \/ \E t \in Targets : goto(t)
    \/ \E t \in Targets : backoff(t)
    \/ \E t \in Targets : extract(t)
    \/ \E t \in Targets : close_page(t)
    \/ \E t \in Targets : close_context(t)
    \/ v1_connect \/ v1_batch \/ v1_gather \/ v1_gather_raises \/ v1_sleep
    \/ v2_connect \/ v2_loop \/ v2_append \/ v2_except \/ v2_sleep
    \/ connect_to_browser \/ cs_extract \/ save_task_data \/ cs_sleep \/ cs_close
    \/ save_results

Spec == Init /\ [][Next]_vars

\* --------------------------- one extract_task_data call, every behaviour
\* The run and its executors at rest, while one call is looked at on its own.
RunParked ==
    /\ variant = "v2"
    /\ urls = <<1>>
    /\ max_concurrent = 1
    /\ contexts = 1
    /\ ctxPages = 1
    /\ browser = "connected"
    /\ faults = 0
    /\ rpc = "done"
    /\ i = 0
    /\ cur = 0
    /\ results = <<>>
    /\ batch_results = <<>>
    /\ files = EmptyDir
    /\ selfPage = "none"
    /\ tpc = [t \in Targets |-> "pending"]
    /\ retry = [t \in Targets |-> 0]
    /\ waited = [t \in Targets |-> 0]
    /\ attempts = [t \in Targets |-> 0]
    /\ navres = [t \in Targets |-> "none"]
    /\ page = [t \in Targets |-> "none"]
    /\ pctx = [t \in Targets |-> "none"]
    /\ ownctx = [t \in Targets |-> "none"]
    /\ data = [t \in Targets |-> NoRecord]
    /\ pageUsers = [p \in 0..Len(urls) |-> {}]
    /\ finished = <<>>

InitExtract ==
    /\ RunParked
    /\ xpc = "loaded"
    /\ xvariant \in Variants
    /\ xbeh \in AllBehaviours
    /\ xres = [rec |-> NoRecord, ran |-> <<>>]
    /\ ch = NoChain
    /\ sv = NoSave
    /\ inp = NoInput
    /\ tk = NoTask

\* The call on a loaded page (cs: after a goto that succeeded).
x_extract ==
    /\ xpc = "loaded"
    /\ xres' = extract_task_data(xvariant, 1, TRUE, xbeh)
    /\ xpc' = "done"
    /\ UNCHANGED <<xvariant, xbeh, ch, sv, inp, tk, runVars, taskVars, faults>>

NextExtract == x_extract

SpecExtract == InitExtract /\ [][NextExtract]_vars

\* ================================================================ claims
\* The batch a Target is dispatched in (batches count from 0).
BatchIndex(t) == (t - 1) \div max_concurrent

InResults(t) == \E k \in 1..Len(results) : results[k].task_id = t

\* scrape_all_tasks (cs: scrape_urls) has returned its collection.
ScrapeReturned == rpc \in {"done", "saved"}

RunEnded == ScrapeReturned \/ rpc = "aborted"

\* ------------------------------------------------------------------ C1
HoldersOfOpenPage == {t \in Targets : Running(t) /\ page[t] = "open"}

\* C1: with concurrency limit N and any number of Targets, the number of
\* scrape_task invocations in flight that hold an open page never exceeds N.
C1_ConcurrencyCap == Cardinality(HoldersOfOpenPage) <= max_concurrent

\* A full batch of two executors holds two pages while a third Target waits.
C1_Witness ==
    /\ variant = "v1" /\ max_concurrent = 2 /\ Len(urls) = 3
    /\ Cardinality(HoldersOfOpenPage) = 2
    /\ tpc[3] = "pending"

\* ------------------------------------------------------------------ C2
\* C2 as stated: a page an executor opened is closed once that executor
\* has left (returned or raised), and no such page is open once the run
\* has ended.
C2_PageReleased ==
    \A t \in Targets :
        (tpc[t] \in {"returned", "raised"} \/ RunEnded) => page[t] # "open"

\* C2 amended: an executor that returns a Record, on any exit path, has
\* closed the page it opened; a page can be left open only by a close call
\* that itself raised, in which case the executor raised instead of
\* returning; after a run that returned its results no other page is open.
C2_PageReleasedUnlessCloseRaised ==
    \A t \in Targets :
        /\ tpc[t] = "returned" => page[t] # "open"
        /\ (page[t] = "open" /\ (~Running(t) \/ ScrapeReturned)) => tpc[t] = "raised"

\* An executor returned an error Record through its handler and its page
\* is closed.
C2_Witness ==
    \E t \in Targets :
        /\ tpc[t] = "returned" /\ page[t] = "closed"
        /\ data[t].error = NavError(1)

\* ------------------------------------------------------------------ C3
\* A Task failed: its executor built an error Record or raised.
TaskFailed(t) == tpc[t] = "raised" \/ (tpc[t] = "returned" /\ data[t].error # NoError)

\* C3: with a shared session available, a run over M Targets ends with
\* exactly M Records, one per Target, and every failed Target has a Failed
\* Record which the summary lists with its error text.
C3_NoFailureDisappears ==
    (RunEnded /\ contexts > 0) =>
        /\ Len(results) = Len(urls)
        /\ \A t \in Targets :
              /\ Cardinality({k \in 1..Len(results) : results[k].task_id = t}) = 1
              /\ TaskFailed(t) =>
                    \E k \in 1..Len(results) :
                        /\ SummaryTasks(results)[k].task_id = t
                        /\ SummaryTasks(results)[k].status = "error"
                        /\ SummaryTasks(results)[k].error # NoError

\* ------------------------------------------------------------------ C4
C4_Budget ==
    \A t \in Targets :
        variant = "v2" =>
            /\ attempts[t] <= 3
            /\ navres[t] = "ok" => tpc[t] \notin {"goto", "backoff"}
            /\ (attempts[t] = 3 /\ navres[t] = "fail") =>
                  /\ tpc[t] \in {"close_page", "returned", "raised"}
                  /\ data[t] = ErrorRecord(t, NavError(3))

C4_Step ==
    \A t \in Targets :
        (variant = "v2" /\ attempts'[t] > attempts[t]) =>
            /\ navres[t] # "ok"
            /\ attempts[t] > 0 => navres[t] = "fail"

\* C4: a v2 executor makes at most 3 navigation attempts; it navigates
\* again only after a failed attempt and never after a successful one; when
\* the third attempt fails the executor builds the Failed Record with the
\* error of that attempt and never extracts.
C4_RetryBudget == [](C4_Budget) /\ [][C4_Step]_vars

\* The third attempt failed and the executor returned.
C4_Witness ==
    \E t \in Targets :
        /\ variant = "v2" /\ attempts[t] = 3 /\ navres[t] = "fail"
        /\ tpc[t] = "returned"

\* ------------------------------------------------------------------ C5
Untrusted == {"prompt", "logs", "metadata"}

Clean(r) == r.error # NoError => r.found \cap Untrusted = {}

\* C5: a Record that carries an error has no prompt, logs or metadata
\* value, wherever the failure happened.
C5_FailedRecordsEmpty ==
    /\ \A k \in 1..Len(results) : Clean(results[k])
    /\ \A k \in 1..Len(batch_results) : Clean(batch_results[k])
    /\ \A t \in Targets : Clean(data[t])

\* A Target whose fields were extracted and whose page close then raised
\* has a Failed Record in the results.
C5_Witness ==
    \E k \in 1..Len(results) :
        /\ results[k].error = "close_page"
        /\ data[results[k].task_id].found \cap Untrusted # {}

\* ------------------------------------------------------------------ C6
\* C6: no executor of a later batch is started before every executor of
\* an earlier batch has resolved (returned or raised).
C6_BatchBarrier ==
    \A t \in Targets : \A u \in Targets :
        (BatchIndex(u) > BatchIndex(t) /\ tpc[u] # "pending") =>
            tpc[t] \in {"returned", "raised"}

\* The second batch runs after a first batch of two in which a Task failed.
C6_Witness ==
    /\ variant = "v1" /\ max_concurrent = 2 /\ Len(urls) = 3
    /\ Running(3)
    /\ data[1].error # NoError /\ data[2].error = NoError

\* ------------------------------------------------------------------ C7
\* C7: when an executor of a batch has failed, the Record of every sibling
\* that ran to its end is in the result collection when the run ends.
C7_SiblingIsolation ==
    \A t \in Targets : \A u \in Targets :
        ( /\ variant = "v1" /\ RunEnded
          /\ t # u /\ BatchIndex(t) = BatchIndex(u)
          /\ TaskFailed(t) /\ tpc[u] = "returned" ) => InResults(u)

\* ------------------------------------------------------------------ C8
\* C8: every page an executor opens lives in the shared context, no
\* executor creates a context, and no page is used by two Targets.
C8_SessionSharing ==
    /\ \A t \in Targets :
          /\ page[t] # "none" => pctx[t] = "shared"
          /\ ownctx[t] = "none"
    /\ \A p \in DOMAIN pageUsers : Cardinality(pageUsers[p]) <= 1

\* ------------------------------------------------------------------ C9
\* C9: when the browser reports no context, no context or page is created,
\* nothing is navigated and no Record is produced.
C9_DegradedMode ==
    contexts = 0 =>
        /\ \A t \in Targets : page[t] = "none" /\ ownctx[t] = "none" /\ attempts[t] = 0
        /\ selfPage = "none"
        /\ results = <<>> /\ batch_results = <<>>

CrashedFrom(beh, k) ==
    /\ beh.outer = "ok"
    /\ \A j \in k..Len(FieldSeq("v2")) : beh.f[FieldSeq("v2")[j]] = "error"

\* C11: when the page crashes while a field extractor runs, the v2 Task
\* ends with a Failed Record carrying the error, never with a Success
\* Record.
C11_HardFailureAborts ==
    (xpc = "done" /\ xvariant = "v2" /\ \E k \in 1..Len(FieldSeq("v2")) : CrashedFrom(xbeh, k))
        => xres.rec.error # NoError

\* ----------------------------------------------------------------- C13
\* The first two navigation attempts of t failed and the third succeeded.
ThirdAttemptSucceeded(t) ==
    variant = "v2" /\ attempts[t] = max_retries /\ navres[t] = "ok"

\* C13: when the first two navigation attempts fail and the third
\* succeeds, the executor has slept at least 2 + 3 = 5 seconds between the
\* attempts by the time extraction starts, and the Record it builds is the
\* one extraction returns on the loaded page: a Success Record whenever
\* the page loads and answers, with no trace of the two failed attempts.
C13_RetryThenSucceed ==
    \A t \in Targets :
        ThirdAttemptSucceeded(t) =>
            /\ waited[t] >= 5
            /\ tpc[t] \in {"close_page", "returned"} =>
                  \E beh \in PageBehaviours :
                      /\ data[t] = extract_task_data("v2", t, TRUE, beh).rec
                      /\ beh.outer = "ok" => data[t].error = NoError

\* Two failed attempts, a successful third, and a Success Record returned.
C13_Witness ==
    \E t \in Targets :
        /\ ThirdAttemptSucceeded(t)
        /\ tpc[t] = "returned" /\ data[t].error = NoError

\* ----------------------------------------------------------------- C14
\* The original wording: 2 seconds are slept before the second attempt and
\* 3 more before the third.
C14_LinearBackoff ==
    \A t \in Targets :
        variant = "v2" =>
            /\ retry[t] = 1 => waited[t] = 2
            /\ retry[t] = 2 => waited[t] = 2 + 3

\* C14: the delay before a navigation retry is the same 3 seconds for
\* every retry, 3 before the second attempt and 3 before the third; it
\* does not grow with the attempt number.
C14_ConstantBackoff ==
    [][\A t \in Targets :
          (variant = "v2" /\ retry'[t] # retry[t]) =>
              /\ retry'[t] = retry[t] + 1
              /\ waited'[t] = waited[t] + 3]_vars

\* Both retries of one executor have been taken: 6 seconds slept.
C14_Witness ==
    \E t \in Targets : variant = "v2" /\ retry[t] = 2 /\ attempts[t] = 3 /\ waited[t] = 6

\* ------------------------------------- strategy chains of v2, on one page
\* A text is known by its length in characters and by what it is made of:
\* "prose", "blank" (whitespace only), "chrome" (navigation chrome, with
\* the words 'settings' and 'menu'), "log" (terminal output that starts
\* with the spinner character and mentions 'KiB').
EmptyText == [len |-> 0, body |-> "prose"]

Texts ==
    {EmptyText, [len |-> 100, body |-> "prose"], [len |-> 20, body |-> "prose"],
     [len |-> 100, body |-> "blank"], [len |-> 100, body |-> "chrome"],
     [len |-> 300, body |-> "log"]}

\* `if text`, `if prompt`: a string is true when it is not empty.
Truthy(text) == text.len > 0

\* text.strip(): whitespace-only text becomes the empty string; the other
\* texts carry no surrounding whitespace.
Strip(text) == IF text.body = "blank" THEN EmptyText ELSE text

StartsWithSpinner(text) == Truthy(text) /\ text.body = "log"

\* The quality filter of the prompt selectors.
PromptFilter(text) ==
    /\ Truthy(text) /\ text.len > 30 /\ text.len < 2000
    /\ text.body # "chrome"
    /\ ~StartsWithSpinner(Strip(text))

\* The quality filter of the main-content search.
MainFilter(text) ==
    /\ Truthy(text) /\ text.len > 50 /\ text.len < 2000
    /\ ~StartsWithSpinner(text) /\ text.body # "log"
    /\ text.body # "chrome"

\* The quality filter of the logs selectors.
LogsFilter(text) == Truthy(text) /\ (text.body = "log" \/ text.len > 200)

Passes(chain, text) == IF chain = "prompt" THEN PromptFilter(text) ELSE LogsFilter(text)

\* What the chain keeps of an accepted candidate.
Kept(chain, text) == IF chain = "prompt" THEN Strip(text) ELSE text

\* What a selector yields on the page: no element, an exception from the
\* page call, or an element with its text.
MissingEl == [el |-> "missing", text |-> EmptyText]

RaisingEl == [el |-> "raises", text |-> EmptyText]

Elems == {MissingEl, RaisingEl} \cup {[el |-> "text", text |-> x] : x \in Texts}

DivElems == Elems \ {MissingEl}

\* divs[:15]
DivsLimit == 15

\* What a main-content selector yields: no element, an exception, or a
\* container with its div descendants in document order.
MainElems ==
    {[el |-> "missing", divs |-> <<>>], [el |-> "raises", divs |-> <<>>]}
        \cup {[el |-> "present", divs |-> d] :
                 d \in UNION {[1..n -> DivElems] : n \in 0..MaxDivs}}

NotFound == [by |-> <<>>, value |-> EmptyText]

\* for selector in selectors: the first element whose text passes the
\* filter is kept and ends the loop; a missing element, a rejected text
\* and an exception all go on to the next selector.
RECURSIVE SelectorLoop(_, _, _)
SelectorLoop(chain, sels, k) ==
    IF k > Len(sels) THEN NotFound
    ELSE IF sels[k].el = "text" /\ Passes(chain, sels[k].text)
         THEN [by |-> <<"selector", k>>, value |-> Kept(chain, sels[k].text)]
         ELSE SelectorLoop(chain, sels, k + 1)

\* for div in divs[:15]: the first div whose text passes the filter sets
\* prompt and ends the loop; an exception leaves the whole search.
RECURSIVE DivLoop(_, _, _)
DivLoop(divs, m, d) ==
    IF d > Min(Len(divs), DivsLimit) THEN [st |-> "none", by |-> <<>>, value |-> EmptyText]
    ELSE IF divs[d].el = "raises" THEN [st |-> "raised", by |-> <<>>, value |-> EmptyText]
    ELSE IF MainFilter(divs[d].text)
         THEN [st |-> "set", by |-> <<"main", m, d>>, value |-> Strip(divs[d].text)]
         ELSE DivLoop(divs, m, d + 1)

\* for main_sel in main_selectors, inside one try: `if prompt: break`
\* after the divs of a container, so an empty prompt goes on to the next
\* container.
RECURSIVE MainSearch(_, _)
MainSearch(mains, m) ==
    IF m > Len(mains) THEN NotFound
    ELSE IF mains[m].el = "missing" THEN MainSearch(mains, m + 1)
    ELSE IF mains[m].el = "raises" THEN NotFound
    ELSE LET r == DivLoop(mains[m].divs, m, 1) IN
         IF r.st = "raised" THEN NotFound
         ELSE IF r.st = "set" /\ Truthy(r.value) THEN [by |-> r.by, value |-> r.value]
         ELSE MainSearch(mains, m + 1)

\* The prompt chain: the selectors, then `if not prompt:` the main-content
\* search.
ResolvePrompt(pg) ==
    LET p == SelectorLoop("prompt", pg.sels, 1) IN
    IF Truthy(p.value) THEN p ELSE MainSearch(pg.mains, 1)

\* The logs chain: the selectors only.
ResolveLogs(pg) == SelectorLoop("logs", pg.sels, 1)

\* The pages: what the first MaxStrategies selectors of the chain and the
\* first MaxMains main-content selectors yield; the selectors after them
\* match nothing.
ChainPages ==
    [chain : {"prompt"}, sels : [1..MaxStrategies -> Elems],
     mains : [1..MaxMains -> MainElems]]
      \cup [chain : {"logs"}, sels : [1..MaxStrategies -> Elems],
            mains : {[m \in 1..MaxMains |-> [el |-> "missing", divs |-> <<>>]]}]

InitChain ==
    /\ RunParked
    /\ NoCall
    /\ \E pg \in ChainPages : ch = [pc |-> "page", pg |-> pg, res |-> NotFound]
    /\ sv = NoSave
    /\ inp = NoInput
    /\ tk = NoTask

resolve_prompt ==
    /\ ch.pc = "page" /\ ch.pg.chain = "prompt"
    /\ ch' = [ch EXCEPT !.pc = "resolved", !.res = ResolvePrompt(ch.pg)]
    /\ UNCHANGED <<xpc, xvariant, xbeh, xres, sv, inp, tk, runVars, taskVars, faults>>

resolve_logs ==
    /\ ch.pc = "page" /\ ch.pg.chain = "logs"
    /\ ch' = [ch EXCEPT !.pc = "resolved", !.res = ResolveLogs(ch.pg)]
    /\ UNCHANGED <<xpc, xvariant, xbeh, xres, sv, inp, tk, runVars, taskVars, faults>>

NextChain == resolve_prompt \/ resolve_logs

SpecChain == InitChain /\ [][NextChain]_vars

\* ----------------------------------------------------------------- C12
\* No page call raises on the page.
NoRaise(pg) ==
    /\ \A k \in DOMAIN pg.sels : pg.sels[k].el # "raises"
    /\ \A m \in DOMAIN pg.mains :
          /\ pg.mains[m].el # "raises"
          /\ \A d \in DOMAIN pg.mains[m].divs : pg.mains[m].divs[d].el # "raises"

\* The strategies of the chain in declared order, each with the candidate
\* it yields on the page: the selectors, then (prompt chain) the divs of
\* the main-content containers.  Position <<1, k, 0>> is selector k,
\* <<2, m, d>> is div d of container m.
Strategies(pg) ==
    {<<1, k, 0>> : k \in DOMAIN pg.sels}
        \cup {<<2, m, d>> : m \in DOMAIN pg.mains, d \in 1..MaxDivs}

Before(a, b) ==
    \/ a[1] < b[1]
    \/ a[1] = b[1] /\ a[2] < b[2]
    \/ a[1] = b[1] /\ a[2] = b[2] /\ a[3] < b[3]

CandidatePasses(pg, a) ==
    IF a[1] = 1
    THEN pg.sels[a[2]].el = "text" /\ Passes(pg.chain, pg.sels[a[2]].text)
    ELSE /\ pg.chain = "prompt"
         /\ pg.mains[a[2]].el = "present" /\ a[3] <= Len(pg.mains[a[2]].divs)
         /\ pg.mains[a[2]].divs[a[3]].el = "text"
         /\ MainFilter(pg.mains[a[2]].divs[a[3]].text)

CandidateOf(pg, a) ==
    IF a[1] = 1
    THEN [by |-> <<"selector", a[2]>>, value |-> Kept(pg.chain, pg.sels[a[2]].text)]
    ELSE [by |-> <<"main", a[2], a[3]>>, value |-> Strip(pg.mains[a[2]].divs[a[3]].text)]

\* C12: on every page whose calls all answer, a chain returns the
\* candidate of the first strategy in declared order whose candidate
\* passes the quality filter, consulting no later strategy, and returns
\* the empty value when no strategy's candidate passes.
C12_FirstPassingWins ==
    (ch.pc = "resolved" /\ NoRaise(ch.pg)) =>
        LET pass == {a \in Strategies(ch.pg) : CandidatePasses(ch.pg, a)} IN
        IF pass = {}
        THEN ch.res = NotFound
        ELSE \E a \in pass :
                /\ \A b \in pass : b = a \/ Before(a, b)
                /\ ch.res.value = CandidateOf(ch.pg, a).value
                /\ Truthy(ch.res.value) => ch.res.by = CandidateOf(ch.pg, a).by

\* -------------------------------------------- save calls on one directory
\* sv.dir is the directory, sv.prev the directory before the latest
\* call, sv.calls the calls so far: the Records passed (arg), the same
\* Records as the call left them (recs), and the write that raised.
InitSave ==
    /\ RunParked
    /\ NoCall
    /\ ch = NoChain
    /\ inp = NoInput
    /\ tk = NoTask
    /\ \E v \in Variants :
          sv = [pc |-> "ready", variant |-> v, dir |-> EmptyDir, prev |-> EmptyDir,
                calls |-> <<>>]

\* scraper.save_results(results) (v1, v2)
sv_save_results ==
    /\ sv.pc = "ready" /\ sv.variant \in {"v1", "v2"}
    /\ Len(sv.calls) < MaxSaves
    /\ \E rs \in RecordLists : \E x \in Failures(rs) :
          /\ CanFail(rs, x)
          /\ LET s == SaveAll(sv.variant, sv.dir, rs, 1, x.failAt, x.fail, x.left) IN
             sv' = [sv EXCEPT !.pc = IF s.ok THEN "ready" ELSE "raised",
                              !.dir = s.dir, !.prev = sv.dir,
                              !.calls = Append(@, [arg |-> rs, recs |-> rs,
                                                   failAt |-> x.failAt])]
    /\ UNCHANGED <<xpc, xvariant, xbeh, xres, ch, inp, tk, runVars, taskVars, faults>>

\* await self.save_task_data(result) (cs), on a Record fresh from
\* extraction or on the Record object of the call before.
sv_save_task_data ==
    /\ sv.pc = "ready" /\ sv.variant = "cs"
    /\ Len(sv.calls) < MaxSaves
    /\ \E r \in UNION {RecordsOfTarget(id) : id \in 1..MaxRecords}
                  \cup {sv.calls[n].recs[1] : n \in {Len(sv.calls)} \ {0}} :
       \E x \in Failures(<<r>>) :
          /\ x.failAt <= 1 /\ CanFail(<<r>>, x)
          /\ LET s == SaveRecord("cs", sv.dir, r, x.fail, x.left) IN
             sv' = [sv EXCEPT !.pc = IF s.ok THEN "ready" ELSE "raised",
                              !.dir = s.dir, !.prev = sv.dir,
                              !.calls = Append(@, [arg |-> <<r>>, recs |-> <<s.rec>>,
                                                   failAt |-> x.failAt])]
    /\ UNCHANGED <<xpc, xvariant, xbeh, xres, ch, inp, tk, runVars, taskVars, faults>>

NextSave == sv_save_results \/ sv_save_task_data

SpecSave == InitSave /\ [][NextSave]_vars

\* ----------------------------------------------------------------- C15
LastCall == sv.calls[Len(sv.calls)]

\* The files of Target id in a directory: the names that exist, with
\* their content.
FilesOfTarget(dir, id) ==
    {<<n, dir[n]>> : n \in {JsonName(id), LogsName(id)} \cap DOMAIN dir}

\* C15: after a save of Record B, whatever was saved for the same targetId
\* before, the files of that targetId are exactly the files that saving B
\* alone into an empty directory produces.
C15_LastWriteWins ==
    (sv.pc = "ready" /\ sv.calls # <<>>) =>
        \A k \in DOMAIN LastCall.arg :
            LET B == LastCall.arg[k] IN
            B = AsSaved(B) =>
                FilesOfTarget(sv.dir, B.task_id) =
                    FilesOfTarget(
                        SaveRecord(sv.variant, EmptyDir, B, "none", "untouched").dir,
                        B.task_id)

\* ----------------------------------------------------------------- C16
\* The latest call was given the Records of the call before it, with the
\* same content or as the very same objects.
SavedAgain ==
    /\ sv.pc = "ready" /\ Len(sv.calls) >= 2
    /\ LastCall.arg \in {sv.calls[Len(sv.calls) - 1].arg, sv.calls[Len(sv.calls) - 1].recs}

\* C16: a save repeated for the same Records with identical content leaves
\* the output directory, names and bytes, as the first save left it.
C16_SaveIdempotent == SavedAgain => sv.dir = sv.prev

\* A Record with logs markup has been saved twice in a row.
C16_Witness ==
    /\ SavedAgain
    /\ \E k \in DOMAIN LastCall.arg : "logs" \in LastCall.arg[k].found
    /\ \E n \in DOMAIN sv.dir : Len(sv.dir[n]) = 1

\* ----------------------------------------------------------------- C17
\* The Records saved since the directory was empty, in the order saved.
RECURSIVE SavedUpTo(_)
SavedUpTo(n) == IF n = 0 THEN <<>> ELSE SavedUpTo(n - 1) \o sv.calls[n].arg

\* The calls so far saved the Records of one run: every call returned,
\* every Record came fresh from extraction, no two share a targetId.
OneRunSaved ==
    LET rs == SavedUpTo(Len(sv.calls)) IN
    /\ sv.pc = "ready" /\ rs # <<>>
    /\ \A k \in DOMAIN rs : rs[k] = AsSaved(rs[k])
    /\ \A j, k \in DOMAIN rs : rs[j].task_id = rs[k].task_id => j = k

\* C17: starting from an empty directory, once the Records of a run are
\* saved there is one <targetId>.json per Record, and <targetId>_logs.html
\* exists exactly for the Records with logs markup; Failed Records and
\* Records without logs have no report, and nothing else is in the
\* directory but the summary.
C17_SaveLayout ==
    OneRunSaved =>
        LET rs == SavedUpTo(Len(sv.calls)) IN
        /\ \A k \in DOMAIN rs :
              /\ JsonName(rs[k].task_id) \in DOMAIN sv.dir
              /\ Len(sv.dir[JsonName(rs[k].task_id)]) = 1
              /\ LogsName(rs[k].task_id) \in DOMAIN sv.dir
                    <=> ("logs" \in rs[k].found /\ rs[k].html)
              /\ rs[k].error # NoError => LogsName(rs[k].task_id) \notin DOMAIN sv.dir
        /\ Cardinality({n \in DOMAIN sv.dir : \E k \in DOMAIN rs : n = JsonName(rs[k].task_id)})
              = Len(rs)
        /\ \A n \in DOMAIN sv.dir :
              \/ n = SummaryName
              \/ \E k \in DOMAIN rs : n \in {JsonName(rs[k].task_id), LogsName(rs[k].task_id)}

\* A run of two Records, one with logs and one Failed, has been saved.
C17_Witness ==
    /\ OneRunSaved
    /\ LET rs == SavedUpTo(Len(sv.calls)) IN
       /\ Len(rs) = 2
       /\ \E k \in DOMAIN rs : "logs" \in rs[k].found
       /\ \E k \in DOMAIN rs : rs[k].error # NoError

\* ----------------------------------------------------------------- C18
\* save_results has returned from its latest call.
SummarySaved ==
    sv.pc = "ready" /\ sv.calls # <<>> /\ sv.variant \in {"v1", "v2"}

\* C18: the summary file holds one summary, computed from the collection
\* passed to the latest save_results call alone: total is the number of
\* Records, succeeded the number without an error, failed the number with
\* one, and there is one status entry per Record in collection order;
\* nothing of an earlier summary is left.
C18_SummaryRecomputed ==
    SummarySaved =>
        LET rs == LastCall.arg IN
        /\ SummaryName \in DOMAIN sv.dir
        /\ Len(sv.dir[SummaryName]) = 1
        /\ LET S == sv.dir[SummaryName][1] IN
           /\ S.total_tasks = Len(rs)
           /\ S.successful = Cardinality({k \in DOMAIN rs : rs[k].error = NoError})
           /\ S.failed = Cardinality({k \in DOMAIN rs : rs[k].error # NoError})
           /\ S.successful + S.failed = S.total_tasks
           /\ DOMAIN S.tasks = DOMAIN rs
           /\ \A k \in DOMAIN rs :
                 /\ S.tasks[k].task_id = rs[k].task_id
                 /\ S.tasks[k].status = "error" <=> rs[k].error # NoError
                 /\ S.tasks[k].status = "success" <=> rs[k].error = NoError

\* A second save_results call, on a collection of another length and with
\* a Failed Record, has replaced the summary of the first.
C18_Witness ==
    /\ SummarySaved /\ Len(sv.calls) = 2
    /\ Len(LastCall.arg) # Len(sv.calls[1].arg)
    /\ \E k \in DOMAIN LastCall.arg : LastCall.arg[k].error # NoError
    /\ sv.prev[SummaryName] # sv.dir[SummaryName]

Scenario ==
    /\ variant = "v2" /\ Len(urls) = 3 /\ rpc = "saved"
    /\ \A t \in Targets : tpc[t] = "returned"
    /\ data[1] = extract_task_data("v2", 1, TRUE,
                     Behaviour("ok", [n \in FieldNames |-> "found"])).rec
    /\ data[2] = extract_task_data("v2", 2, TRUE,
                     Behaviour("ok", [n \in FieldNames |->
                                         IF n = "logs" THEN "absent" ELSE "found"])).rec
    /\ attempts[3] = max_retries /\ navres[3] = "fail"

\* C20: that run ends with two Success Records and one Failed Record
\* saved, exactly one logs report file, and a summary with total 3,
\* succeeded 2 and failed 1.
C20_EndToEnd ==
    Scenario =>
        /\ Len(results) = 3
        /\ Cardinality({k \in DOMAIN results : results[k].error = NoError}) = 2
        /\ Cardinality({k \in DOMAIN results : results[k].error # NoError}) = 1
        /\ \A t \in Targets :
              /\ JsonName(t) \in DOMAIN files
              /\ files[JsonName(t)] = <<JsonChunk(AsSaved(results[t]))>>
        /\ {n \in DOMAIN files : \E t \in Targets : n = LogsName(t)} = {LogsName(1)}
        /\ files[SummaryName][1].total_tasks = 3
        /\ files[SummaryName][1].successful = 2
        /\ files[SummaryName][1].failed = 1
        /\ Len(files[SummaryName]) = 1

C20_Witness == Scenario /\ SummaryName \in DOMAIN files

\* ----------------------------------------------------------------- C26
\* extract_task_data of Target t has returned a Record without an error.
Extracted(t) ==
    /\ tpc[t] \in {"close_page", "returned", "raised"}
    /\ data[t].task_id = t /\ data[t].error = NoError

\* C26: in v2, every Target whose extract_task_data returned a Record
\* without an error is in the result collection as that Record, also when
\* closing its page afterwards failed.
C26_ExtractionKept ==
    \A t \in Targets :
        (variant = "v2" /\ Extracted(t) /\ InResults(t)) =>
            \E k \in 1..Len(results) : results[k] = data[t]

\* ----------------------------------------------------------------- C28
\* C28: in every summary v2's save_results writes for the Records of a
\* run, successful + failed = total_tasks, the Records with a prompt and
\* the Records with logs are each at most the successful ones, and an
\* entry has status "error" exactly when its Record carries an error.
C28_SummaryCounts ==
    (variant = "v2" /\ rpc = "saved") =>
        LET S == files[SummaryName][1] IN
        /\ S.successful + S.failed = S.total_tasks
        /\ S.with_prompt <= S.successful
        /\ S.with_logs <= S.successful
        /\ DOMAIN S.tasks = DOMAIN results
        /\ \A k \in DOMAIN results :
              S.tasks[k].status = "error" <=> results[k].error # NoError

\* A saved run with a Failed Record and a Success Record that has a
\* prompt but no logs.
C28_Witness ==
    /\ variant = "v2" /\ rpc = "saved"
    /\ \E k \in DOMAIN results : results[k].error # NoError
    /\ \E k \in DOMAIN results :
          /\ results[k].error = NoError
          /\ "prompt" \in results[k].found /\ "logs" \notin results[k].found

\* ----------------------------------------------------------------- C29
\* The directory holds the record file of Target t.
Persisted(t) ==
    /\ JsonName(t) \in DOMAIN files
    /\ Len(files[JsonName(t)]) = 1
    /\ files[JsonName(t)][1].record.task_id = t

\* C29: in cs, the Record of a Target is saved before the navigation to
\* the next Target begins: whenever the loop of scrape_urls is between two
\* Targets or behind the last, and for every Target before the current
\* one, the directory holds the record file of every Target extracted.
C29_IncrementalPersistence ==
    variant = "cs" =>
        \A t \in Targets :
            (attempts[t] > 0 /\ (t < cur \/ rpc \in {"cs_sleep", "cs_close", "done"}))
                => Persisted(t)

\* The second Target has been extracted, with the file of the first in
\* the directory.
C29_Witness ==
    /\ variant = "cs" /\ Len(urls) >= 2
    /\ attempts[2] > 0 /\ rpc = "cs_save" /\ Persisted(1)

\* ----------------------------------------------------------------- C30
\* C30: a v2 run navigates and reads only pages it opened itself, in the
\* shared context; the page that was in the context before is never
\* used, and the browser, with its context and the pages in it, is still
\* connected and open at every point, also when the run has ended.
C30_ExistingPagesUntouched ==
    variant = "v2" =>
        /\ pageUsers[0] = {}
        /\ \A p \in DOMAIN pageUsers :
              pageUsers[p] # {} => (p \in Targets /\ page[p] # "none" /\ pctx[p] = "shared")
        /\ \A t \in Targets : ownctx[t] = "none"
        /\ browser = "connected"

\* A v2 run on a context with a page in it has ended, after navigating
\* and closing a page of its own.
C30_Witness ==
    /\ variant = "v2" /\ ctxPages = 1 /\ ScrapeReturned
    /\ \E t \in Targets : pageUsers[t] = {t} /\ page[t] = "closed"

\* ----------------------------------------------------------------- C23
\* The Records the last gather of v1 added to results.
LastBatch == [k \in 1..Len(finished) |-> results[Len(results) - Len(finished) + k]]

\* A gather of v1 has returned and its Records are in results.
Gathered ==
    /\ variant = "v1" /\ rpc \in {"sleep", "batch", "done", "saved"}
    /\ finished # <<>>

\* C23 as stated: the Records of a batch are in results in the order
\* their Tasks completed.
C23_CompletionOrder ==
    Gathered => \A k \in 1..Len(finished) : LastBatch[k] = data[finished[k]]

\* C23, amended: the Records of a batch are in results in the order of
\* the input list, whatever the order their Tasks completed in.
C23_InputOrder ==
    Gathered =>
        /\ \A k \in 1..Len(finished) :
              LastBatch[k] = data[Len(results) - Len(finished) + k]
        /\ \A k \in 1..Len(results) : results[k].task_id = k

\* The second Target of a batch returned before the first, and the batch
\* is in results.
C23_Witness ==
    /\ Gathered /\ Len(finished) >= 2
    /\ finished[1] > finished[2]

\* ------------------------------------------------------ the url list
\* A line of codex_urls.txt is known by what it holds and by whether
\* whitespace surrounds it.  "task_e_a1" and "task_e_b2" stand for
\* https://chatgpt.com/codex/tasks/task_e_a1 and .../task_e_b2,
\* "task_e_a1/logs" for the first followed by more path, "elsewhere" for a
\* url of another site, "" for a line with nothing but whitespace.
Bodies == {"", "task_e_a1", "task_e_b2", "task_e_a1/logs", "elsewhere"}

Lines == [pad : BOOLEAN, body : Bodies]

\* The hrefs the page script of get_urls collects: absolute urls.
Hrefs == {l \in Lines : ~l.pad /\ l.body # ""}

\* line.strip()
StripLine(l) == [pad |-> FALSE, body |-> l.body]

\* `if line.strip()`
NonEmptyLine(l) == l.body # ""

\* pattern.match(url) with
\* r'https://chatgpt\.com/codex/tasks/task_e_[a-fA-F0-9]+': a match at the
\* start of the string, whatever follows it.
PatternMatch(l) == ~l.pad /\ l.body \in {"task_e_a1", "task_e_b2", "task_e_a1/logs"}

\* url.split('/')[-1]
TaskIdOf(l) ==
    IF l.body = "task_e_a1/logs" THEN "logs" ELSE l.body

\* The place of a url in sorted(urls).
Rank(l) ==
    CASE l.body = "elsewhere" -> 1
      [] l.body = "task_e_a1" -> 2
      [] l.body = "task_e_a1/logs" -> 3
      [] l.body = "task_e_b2" -> 4
      [] OTHER -> 0

\* sorted(urls) of a set of urls.
RECURSIVE Sorted(_)
Sorted(S) ==
    IF S = {} THEN <<>>
    ELSE LET l == CHOOSE x \in S : \A y \in S : Rank(x) <= Rank(y)
         IN  <<l>> \o Sorted(S \ {l})

\* The files of at most MaxLines lines.
RECURSIVE FilesUpTo(_)
FilesUpTo(n) ==
    IF n = 0 THEN {<<>>}
    ELSE LET F == FilesUpTo(n - 1)
         IN  F \cup {Append(f, l) : f \in {g \in F : Len(g) = n - 1}, l \in Lines}

\* urls[start:] then urls[:limit], each applied when the argument is
\* given and not 0.
Sliced(us, start, limit) ==
    LET a == IF start > 0 THEN SubSeq(us, start + 1, Len(us)) ELSE us
    IN  IF limit > 0 THEN SubSeq(a, 1, Min(limit, Len(a))) ELSE a

InitInput ==
    /\ RunParked
    /\ NoCall
    /\ ch = NoChain
    /\ sv = NoSave
    /\ tk = NoTask
    /\ \E r \in {"main", "run_scraper"}, st \in 0..1, lim \in 0..1 :
          /\ r = "main" => (st = 0 /\ lim = 0)
          /\ inp = [pc |-> "start", reader |-> r, start |-> st, limit |-> lim,
                    file |-> <<>>, pos |-> 0, urls |-> <<>>, dispatched |-> <<>>]

\* get_urls: valid_urls = [url for url in urls if pattern.match(url)];
\* save_urls_to_file writes sorted(urls), one per line.
in_collect ==
    /\ inp.pc = "start"
    /\ \E found \in SUBSET Hrefs :
          /\ Cardinality(found) <= MaxLines
          /\ inp' = [inp EXCEPT !.pc = "read",
                                !.file = Sorted({u \in found : PatternMatch(u)})]
    /\ UNCHANGED <<xpc, xvariant, xbeh, xres, ch, sv, tk, runVars, taskVars, faults>>

\* codex_urls.txt is a text file the scrapers are given: written by
\* another tool or by hand, it holds any lines.
in_given ==
    /\ inp.pc = "start"
    /\ \E f \in FilesUpTo(MaxLines) : inp' = [inp EXCEPT !.pc = "read", !.file = f]
    /\ UNCHANGED <<xpc, xvariant, xbeh, xres, ch, sv, tk, runVars, taskVars, faults>>

\* urls = [line.strip() for line in f if line.strip()], a line at a time.
in_read ==
    /\ inp.pc = "read"
    /\ IF inp.pos < Len(inp.file)
       THEN LET l == inp.file[inp.pos + 1] IN
            inp' = [inp EXCEPT !.pos = @ + 1,
                               !.urls = IF NonEmptyLine(StripLine(l))
                                        THEN Append(@, StripLine(l)) ELSE @]
       ELSE inp' = [inp EXCEPT !.pc = IF inp.reader = "run_scraper" THEN "slice"
                                      ELSE "dispatch"]
    /\ UNCHANGED <<xpc, xvariant, xbeh, xres, ch, sv, tk, runVars, taskVars, faults>>

\* run_scraper: urls = urls[args.start:]; urls = urls[:args.limit]
in_slice ==
    /\ inp.pc = "slice"
    /\ inp' = [inp EXCEPT !.pc = "dispatch",
                          !.urls = Sliced(inp.urls, inp.start, inp.limit)]
    /\ UNCHANGED <<xpc, xvariant, xbeh, xres, ch, sv, tk, runVars, taskVars, faults>>

\* scrape_all_tasks(urls) / scrape_urls(urls): every url of the list is
\* handed to a Task Executor, and its Record is named by TaskIdOf.
in_dispatch ==
    /\ inp.pc = "dispatch"
    /\ IF Len(inp.dispatched) < Len(inp.urls)
       THEN inp' = [inp EXCEPT !.dispatched = Append(@, inp.urls[Len(inp.dispatched) + 1])]
       ELSE inp' = [inp EXCEPT !.pc = "done"]
    /\ UNCHANGED <<xpc, xvariant, xbeh, xres, ch, sv, tk, runVars, taskVars, faults>>

NextInput == in_collect \/ in_given \/ in_read \/ in_slice \/ in_dispatch

SpecInput == InitInput /\ [][NextInput]_vars

\* ----------------------------------------------------------------- C22
\* C22: a line of the url list that does not match the Target URL
\* pattern is excluded from extraction: every url handed to a Task
\* Executor matches the pattern.
C22_OnlyValidDispatched ==
    \A k \in 1..Len(inp.dispatched) : PatternMatch(inp.dispatched[k])

\* ------------------------------------- one Task, call by call
\* The labels of the controls a task page can carry.
Labels == {"Logs", "Log", "Output", "Console", "Diff"}

\* for tab_text in ['Logs', 'Log', 'Output', 'Console']
TabQueries == <<"Logs", "Log", "Output", "Console">>

\* :has-text("q") takes an element whose text contains q.
HasText(label, q) == label = q \/ (q = "Log" /\ label = "Logs")

\* page.query_selector('button:has-text("q")') finds a button.
ButtonFound(buttons, q) == \E b \in buttons : HasText(b, q)

\* The first of TabQueries that finds a button, from the k-th on; "none"
\* when no query finds one.
RECURSIVE FirstTabFrom(_, _)
FirstTabFrom(buttons, k) ==
    IF k > Len(TabQueries) THEN "none"
    ELSE IF ButtonFound(buttons, TabQueries[k]) THEN TabQueries[k]
    ELSE FirstTabFrom(buttons, k + 1)

FirstTab(buttons) == FirstTabFrom(buttons, 1)

\* cs extract_logs: a button whose stripped text is exactly "Logs".
LogsButton(buttons) == "Logs" \in buttons

\* A task page: where the navigation landed ("task": the url holds
\* 'task_e_'; "login": it does not), the buttons it carries, whether it
\* has a tab or link with 'Log' that is not a button, and the views in
\* which the logs selectors find content.
TaskPages ==
    [landing : {"task", "login"},
     buttons : {B \in SUBSET Labels : Cardinality(B \ {"Diff"}) <= 2},
     altTab  : BOOLEAN,
     logsIn  : SUBSET {"primary", "logs"}]

\* The positions of extract_task_data: the page has loaded.
ExtractingPcs ==
    {"settle", "title", "prompt", "metadata", "tabs", "alt_tabs", "cs_tab", "chain",
     "restore", "summary", "files", "links", "screenshot"}

\* The wait of the url check, in ms.
UrlCheckWait(landing) == IF landing = "task" THEN 0 ELSE 5000

\* The position after a block of extract_task_data.
AfterBlock(v, pc) ==
    IF v = "v2"
    THEN CASE pc = "settle" -> "title"
           [] pc = "title" -> "prompt"
           [] pc = "prompt" -> "metadata"
           [] pc = "metadata" -> "tabs"
           [] pc = "chain" -> "restore"
           [] pc = "restore" -> "summary"
           [] pc = "summary" -> "files"
           [] pc = "files" -> "links"
           [] pc = "links" -> "screenshot"
           [] pc = "screenshot" -> "close"
    ELSE CASE pc = "title" -> "prompt"
           [] pc = "prompt" -> "cs_tab"
           [] pc = "cs_tab" -> "metadata"
           [] pc = "chain" -> "metadata"
           [] pc = "metadata" -> "done"

\* Where the Task ends once its Record is built: v2 closes its page.
AfterRecord(v) == IF v = "v2" THEN "close" ELSE "done"

TaskFault == tk.faults < MaxTaskFaults

InitTask ==
    /\ RunParked
    /\ NoCall
    /\ ch = NoChain
    /\ sv = NoSave
    /\ inp = NoInput
    /\ \E v \in {"v2", "cs"}, pg \in TaskPages :
          tk = [pc |-> "goto", variant |-> v, pg |-> pg, retry |-> 0, urlWait |-> 0,
                view |-> "primary", clicks |-> <<>>, tabs_found |-> FALSE,
                logs |-> "none", logsView |-> "none", summaryView |-> "none",
                hung |-> FALSE, faults |-> 0, rec |-> "none"]

TaskRest == UNCHANGED <<xpc, xvariant, xbeh, xres, ch, sv, inp, runVars, taskVars, faults>>

\* page.goto(url, timeout=...): v2 tries max_retries times, cs once; the
\* last failure becomes the error Record.
tk_goto ==
    /\ tk.pc = "goto"
    /\ \/ tk' = [tk EXCEPT !.pc = IF tk.variant = "v2" THEN "url_check" ELSE "title"]
       \/ /\ TaskFault \/ tk.retry > 0
          /\ IF tk.variant = "v2" /\ RetryAgain(tk.retry)
             THEN tk' = [tk EXCEPT !.retry = @ + 1,
                                   !.faults = IF tk.retry = 0 THEN @ + 1 ELSE @]
             ELSE tk' = [tk EXCEPT !.rec = "error", !.pc = AfterRecord(tk.variant),
                                   !.faults = IF tk.retry = 0 THEN @ + 1 ELSE @]
    /\ TaskRest

\* v2: if 'task_e_' not in page.url: warning; wait_for_timeout(5000).
\* The check only warns and waits: extract_task_data follows wherever
\* the navigation landed.
tk_url_check ==
    /\ tk.pc = "url_check"
    /\ tk' = [tk EXCEPT !.pc = "settle", !.urlWait = UrlCheckWait(tk.pg.landing)]
    /\ TaskRest

\* v2: wait_for_load_state with its timeouts, wait_for_timeout(3000).
\* When both waits for the load state time out, the outer handler builds
\* the error Record.
tk_settle ==
    /\ tk.pc = "settle"
    /\ \/ tk' = [tk EXCEPT !.pc = AfterBlock(tk.variant, "settle")]
       \/ /\ TaskFault
          /\ tk' = [tk EXCEPT !.pc = "close", !.rec = "error", !.faults = @ + 1]
    /\ TaskRest

\* title = await page.title(): outside the blocks, a raise makes the
\* error Record.
tk_title ==
    /\ tk.pc = "title" /\ ~tk.hung
    /\ \/ tk' = [tk EXCEPT !.pc = AfterBlock(tk.variant, "title")]
       \/ /\ TaskFault
          /\ tk' = [tk EXCEPT !.pc = AfterRecord(tk.variant), !.rec = "error",
                              !.faults = @ + 1]
    /\ TaskRest

\* The blocks for prompt, metadata, summary, files and links: queries
\* against the view the page is in; what they raise stays in the block.
tk_field ==
    /\ tk.pc \in {"prompt", "metadata", "summary", "files", "links"} /\ ~tk.hung
    /\ tk' = [tk EXCEPT !.pc = IF tk.variant = "cs" /\ tk.pc = "metadata"
                                THEN "done" ELSE AfterBlock(tk.variant, tk.pc),
                        !.summaryView = IF tk.pc = "summary" THEN tk.view ELSE @,
                        !.rec = IF tk.variant = "cs" /\ tk.pc = "metadata"
                                THEN "record" ELSE @]
    /\ TaskRest

\* v2: the loop over TabQueries: the first query that finds a button
\* clicks it, waits 2000 ms and ends the loop.  A click that raises
\* leaves the logs block through its handler.
tk_tabs ==
    /\ tk.pc = "tabs" /\ ~tk.hung
    /\ LET q == FirstTab(tk.pg.buttons) IN
       IF q = "none"
       THEN tk' = [tk EXCEPT !.pc = "alt_tabs"]
       ELSE \/ tk' = [tk EXCEPT !.pc = "chain", !.clicks = Append(@, q),
                                !.view = "logs", !.tabs_found = TRUE]
            \/ /\ TaskFault
               /\ tk' = [tk EXCEPT !.pc = "summary", !.faults = @ + 1]
    /\ TaskRest

\* v2: if not tabs_found: the alternative tab selectors.
tk_alt_tabs ==
    /\ tk.pc = "alt_tabs" /\ ~tk.hung
    /\ IF ~tk.pg.altTab
       THEN tk' = [tk EXCEPT !.pc = "chain"]
       ELSE \/ tk' = [tk EXCEPT !.pc = "chain", !.clicks = Append(@, "alt"),
                                !.view = "logs", !.tabs_found = TRUE]
            \/ /\ TaskFault
               /\ tk' = [tk EXCEPT !.pc = "summary", !.faults = @ + 1]
    /\ TaskRest

\* cs extract_logs: without a button "Logs" it returns None at once;
\* with one it clicks it and waits 2000 ms.  A raise returns None.
tk_cs_tab ==
    /\ tk.pc = "cs_tab" /\ ~tk.hung
    /\ IF ~LogsButton(tk.pg.buttons)
       THEN tk' = [tk EXCEPT !.pc = AfterBlock("cs", "cs_tab")]
       ELSE \/ tk' = [tk EXCEPT !.pc = "chain", !.clicks = Append(@, "Logs"),
                                !.view = "logs", !.tabs_found = TRUE]
            \/ /\ TaskFault
               /\ tk' = [tk EXCEPT !.pc = AfterBlock("cs", "cs_tab"), !.faults = @ + 1]
    /\ TaskRest

\* The loop over the logs selectors, against the view the page is in.
tk_chain ==
    /\ tk.pc = "chain" /\ ~tk.hung
    /\ tk' = [tk EXCEPT !.pc = AfterBlock(tk.variant, "chain"),
                        !.logsView = tk.view,
                        !.logs = IF tk.view \in tk.pg.logsIn THEN "found" ELSE "none"]
    /\ TaskRest

\* v2: if not logs_content and tabs_found: click the Diff button when
\* there is one, wait 1000 ms.  A raise stays in the logs block.
tk_restore ==
    /\ tk.pc = "restore" /\ ~tk.hung
    /\ IF tk.logs = "none" /\ tk.tabs_found /\ "Diff" \in tk.pg.buttons
       THEN \/ tk' = [tk EXCEPT !.pc = "summary", !.clicks = Append(@, "Diff"),
                                !.view = "primary"]
            \/ /\ TaskFault
               /\ tk' = [tk EXCEPT !.pc = "summary", !.faults = @ + 1]
       ELSE tk' = [tk EXCEPT !.pc = "summary"]
    /\ TaskRest

\* v2: page.screenshot(path=...) in its own try; it has a timeout, so it
\* returns or raises also on a page that does not answer.  The Record
\* follows.
tk_screenshot ==
    /\ tk.pc = "screenshot"
    /\ tk' = [tk EXCEPT !.pc = "close", !.rec = "record"]
    /\ TaskRest

\* v2 finally: await page.close(); a raise replaces the Record.
tk_close ==
    /\ tk.pc = "close"
    /\ \/ tk' = [tk EXCEPT !.pc = "done"]
       \/ /\ TaskFault
          /\ tk' = [tk EXCEPT !.pc = "done", !.rec = "raised", !.faults = @ + 1]
    /\ TaskRest

\* The page stops answering while it is being read.  The calls without
\* a timeout (title, query_selector, query_selector_all, text_content,
\* inner_text, inner_html, get_attribute) then never return: the steps
\* that make them are guarded by ~tk.hung.
tk_hang ==
    /\ tk.pc \in ExtractingPcs /\ ~tk.hung
    /\ tk' = [tk EXCEPT !.hung = TRUE]
    /\ TaskRest

TaskStep ==
    \/ tk_goto \/ tk_url_check \/ tk_settle \/ tk_title \/ tk_field \/ tk_tabs
    \/ tk_alt_tabs \/ tk_cs_tab \/ tk_chain \/ tk_restore \/ tk_screenshot \/ tk_close

NextTask == TaskStep \/ tk_hang

SpecTask == InitTask /\ [][NextTask]_vars

\* The event loop runs a coroutine whose awaited call has returned.
SpecTaskFair == SpecTask /\ WF_vars(TaskStep)

\* ----------------------------------------------------------------- C21
\* C21: every Task whose page loaded leaves Extracting in the end: it
\* comes to its Record, a Success Record or a Failed one.
C21_ExtractionTerminates ==
    (tk.pc \in ExtractingPcs) ~> (tk.pc \in {"close", "done"})

\* ----------------------------------------------------------------- C24
\* The logs block ran to its end without a raise.
LogsBlockDone ==
    /\ tk.pc \in {"restore", "summary", "files", "links", "screenshot", "close", "done"}
    /\ tk.variant = "cs" => tk.pc = "done"
    /\ tk.rec # "error" /\ tk.faults = 0

\* The page has a control labelled Logs, Log, Output or Console.
HasLogsControl == FirstTab(tk.pg.buttons) # "none" \/ tk.pg.altTab

\* C24: with a logs control on the page exactly one is clicked, the first
\* found in the order Logs, Log, Output, Console, and the logs chain is
\* resolved in the logs view; with none the chain is still resolved,
\* against the view the page is in.
C24_ViewSwitch ==
    LogsBlockDone =>
        /\ HasLogsControl =>
              /\ Len(tk.clicks) >= 1 /\ tk.clicks[1] # "Diff"
              /\ \A k \in 2..Len(tk.clicks) : tk.clicks[k] = "Diff"
              /\ FirstTab(tk.pg.buttons) # "none" => tk.clicks[1] = FirstTab(tk.pg.buttons)
              /\ tk.logsView = "logs"
        /\ ~HasLogsControl => (tk.clicks = <<>> /\ tk.logsView = "primary")

\* ----------------------------------------------------------------- C25
\* The summary block has run after a logs control was clicked, on a page
\* with a Diff button, and no click raised.
SummaryAfterLogs ==
    /\ tk.variant = "v2" /\ tk.summaryView # "none"
    /\ tk.tabs_found /\ "Diff" \in tk.pg.buttons /\ tk.faults = 0

\* C25: when logs extraction clicked a logs control, the Diff control is
\* clicked again after the logs field is extracted, found or not, so that
\* summary, files and links are read in the primary view.
C25_ViewRestored ==
    SummaryAfterLogs => tk.summaryView = "primary"

\* ----------------------------------------------------------------- C27
\* C27: v2 scrape_task produces a Record without error only when the url
\* of the page after navigation holds 'task_e_'.
C27_SuccessOnTaskPage ==
    (tk.variant = "v2" /\ tk.rec = "record") => tk.pg.landing = "task"

====
